---- MODULE Spec2Model ----
(***************************************************************************)
(* A model of pages-index (scripts/generate-projects.js):                  *)
(*   - the manifest generator `main` (lines 23-88), one action per step    *)
(*     between two awaits;                                                 *)
(*   - the catalog renderer `loadProjects` / `initApp` / `render`          *)
(*     (lines 98-210), one action per event handler.                       *)
(* Text that the code inspects character by character (names,              *)
(* descriptions, the search text) is a sequence of one-character strings;  *)
(* text it only copies around is a TLA+ string.                            *)
(***************************************************************************)
EXTENDS Integers, Sequences, FiniteSets, TLC

\* ------------------------------------------------------------------ bounds
\* Longest repository listing the API returns to the generator.
MaxRepos == 3
\* Longest manifest the renderer loads.
MaxRecs == 3

\* --------------------------------------------------------- JavaScript values
\* `undefined` as the value of a text field, of a date field, of `topics`.
Undefined == "<undefined>"
NoText == <<"<undefined>">>
NoTopics == <<"<undefined>">>
\* A JavaScript number: NaN (the time value of an Invalid Date, and what
\* arithmetic on it gives) or a finite value.
NaN == [nan |-> TRUE, val |-> 0]
Num(n) == [nan |-> FALSE, val |-> n]

\* new Date(v).getTime(): the timestamps the inputs use, and NaN for anything
\* the parser rejects (among them `undefined` and the empty string).  Time
\* values are kept in seconds, not milliseconds, so that they fit the model
\* checker's integers; order and sign of differences are the same.
DateParse(v) ==
    CASE v = "2023-01-01T00:00:00Z" -> Num(1672531200)
      [] v = "2023-06-01T00:00:00Z" -> Num(1685577600)
      [] v = "2024-02-29T23:59:59Z" -> Num(1709251199)
      [] v = "2024-03-05T08:15:30Z" -> Num(1709626530)
      [] OTHER -> NaN

\* Date - Date: the difference of the time values, NaN if either is NaN.
DateDiff(x, y) ==
    IF DateParse(x).nan \/ DateParse(y).nan
    THEN NaN
    ELSE Num(DateParse(x).val - DateParse(y).val)

\* Array.prototype.sort reads the comparator's result through ToNumber and
\* takes NaN as +0.
SortCompare(v) == IF v.nan THEN 0 ELSE v.val

\* ----------------------------------------------------- Array.prototype.sort
\* The sort of the engine that runs the script (V8's TimSort, arrays shorter
\* than 64): the leading run is found (and reversed if strictly descending),
\* then every later element is placed by binary insertion.  `c[i][j]` is the
\* comparator's result for the elements first at positions i and j; the
\* result is the sequence of original positions in their final order.
RECURSIVE RunLength(_, _, _, _)
RunLength(c, n, isDescending, k) ==
    IF k >= n THEN k
    ELSE IF isDescending
         THEN IF c[k + 1][k] >= 0 THEN k ELSE RunLength(c, n, isDescending, k + 1)
         ELSE IF c[k + 1][k] < 0 THEN k ELSE RunLength(c, n, isDescending, k + 1)

CountAndMakeRun(c, n) ==
    LET isDescending == c[2][1] < 0
        run == RunLength(c, n, isDescending, 2)
        a == [i \in 1..n |-> IF isDescending /\ i <= run THEN run + 1 - i ELSE i]
    IN  [run |-> run, a |-> a]

RECURSIVE BinarySearch(_, _, _, _, _)
BinarySearch(c, a, pivot, left, right) ==
    IF left >= right THEN left
    ELSE LET mid == left + ((right - left) \div 2)
         IN  IF c[pivot][a[mid]] < 0
             THEN BinarySearch(c, a, pivot, left, mid)
             ELSE BinarySearch(c, a, pivot, mid + 1, right)

RECURSIVE BinaryInsertionSort(_, _, _, _)
BinaryInsertionSort(c, a, start, n) ==
    IF start > n THEN a
    ELSE LET pivot == a[start]
             left == BinarySearch(c, a, pivot, 1, start)
             moved == [i \in 1..n |->
                          IF i < left \/ i > start THEN a[i]
                          ELSE IF i = left THEN pivot
                          ELSE a[i - 1]]
         IN  BinaryInsertionSort(c, moved, start + 1, n)

ArraySort(c, n) ==
    IF n < 2 THEN [i \in 1..n |-> i]
    ELSE LET r == CountAndMakeRun(c, n)
         IN  BinaryInsertionSort(c, r.a, r.run + 1, n)

\* ======================================================================
\*                          MANIFEST GENERATOR
\* ======================================================================

\* process.env values: unset, set to the empty string, set.
EnvValues == {Undefined, "", "octo"}

\* A repository of the listing (the fields `main` reads).  `description` is
\* null for a repository that has none.
Null == "<null>"
Repo(name, fork, archived, description, updated) ==
    [name |-> name, fork |-> fork, archived |-> archived,
     description |-> description, updated_at |-> updated]

Repos ==
    { Repo("alpha", FALSE, FALSE, "site", "2023-06-01T00:00:00Z"),
      Repo("beta", TRUE, FALSE, "a fork", "2024-03-05T08:15:30Z"),
      Repo("gamma", FALSE, TRUE, Null, "2023-01-01T00:00:00Z"),
      Repo("delta", FALSE, FALSE, Null, "2023-01-01T00:00:00Z"),
      Repo("eps", FALSE, FALSE, "", "2023-06-01T00:00:00Z"),
      Repo("zeta", FALSE, FALSE, "docs", "2024-03-05T08:15:30Z") }

\* The listings: repositories of one account have distinct names.
RepoLists ==
    UNION { { s \in [1..n -> Repos] :
                \A i, j \in 1..n : i # j => s[i].name # s[j].name } : n \in 0..MaxRepos }

\* What the topics endpoint answers with.
TopicLists == { <<>>, <<"x", "y">> }

\* The hosted-page URL of a repository.
PageUrlOf(name) == "https://octo.github.io/" \o name \o "/"

VARIABLES
    \* --- generator
    gpc,        \* where `main` stands: "start", "listing", "loop", "pages",
                \* "topics", "write", "done" (exit 0), "exit" (process.exit(1))
    owner,      \* process.env.GITHUB_USER
    token,      \* process.env.GITHUB_TOKEN
    repos,      \* the listing
    idx,        \* position of the loop in `repos`
    pageUrl,    \* pagesConfig.html_url of the repository at hand
    projects,   \* the growing result list
    requests,   \* every API request issued, in order: [api, repo]
    responses,  \* every answer received, in order: [api, repo, status]
    warnings,   \* console.warn calls, in order: [repo, what]
    errors,     \* console.error calls, in order
    infos,      \* console.log calls, in order (the record counts)
    file,       \* projects.json on disk: [writes, content]
    exitCode,   \* -1 while running, then the exit status
    \* --- renderer
    rpc,        \* "page", "fetching", "ready", "failed"
    served,     \* the manifest as the server sent it (kept for reference)
    data,       \* `projects` of initApp: the in-memory manifest
    searchValue, \* searchInput.value
    tagValue,   \* tagFilter.value
    sortValue,  \* sortOrder.value
    tagOptions, \* the option values of tagFilter, in order
    grid,       \* the cards of the grid, in order
    listeners,  \* whether the three control listeners are attached
    fetches,    \* fetch('projects.json') calls so far
    diagnostics \* console.error calls of the page, in order

gvars == <<gpc, owner, token, repos, idx, pageUrl, projects, requests, responses,
           warnings, errors, infos, file, exitCode>>
rvars == <<rpc, served, data, searchValue, tagValue, sortValue, tagOptions, grid,
           listeners, fetches, diagnostics>>
vars == <<gvars, rvars>>

\* A test that takes the empty string for a value.
TruthyIfDefined(v) == v # Undefined /\ v # Null

\* JavaScript truthiness of an environment value or a string field.
Truthy(v) == v # Undefined /\ v # Null /\ v # ""

\* What is on disk before the run: an earlier manifest, never written by it.
StaleFile == [writes |-> 0, content |-> <<>>]

GenInit ==
    /\ gpc = "start"
    /\ owner \in EnvValues
    /\ token \in EnvValues
    /\ repos = <<>>
    /\ idx = 1
    /\ pageUrl = ""
    /\ projects = <<>>
    /\ requests = <<>>
    /\ responses = <<>>
    /\ warnings = <<>>
    /\ errors = <<>>
    /\ infos = <<>>
    /\ file = StaleFile
    /\ exitCode = -1

\* Lines 24-34: both credentials are read, then checked in turn.
CheckEnv ==
    /\ gpc = "start"
    /\ IF ~Truthy(owner)
       THEN /\ errors' = Append(errors, "GITHUB_USER")
            /\ gpc' = "exit"
            /\ exitCode' = 1
            /\ UNCHANGED requests
       ELSE IF ~Truthy(token)
       THEN /\ errors' = Append(errors, "GITHUB_TOKEN")
            /\ gpc' = "exit"
            /\ exitCode' = 1
            /\ UNCHANGED requests
       ELSE /\ gpc' = "listing"
            /\ requests' = Append(requests, [api |-> "list", repo |-> owner])
            /\ UNCHANGED <<errors, exitCode>>
    /\ UNCHANGED <<responses, owner, token, repos, idx, pageUrl, projects, warnings, infos, file>>
    /\ UNCHANGED rvars

\* Lines 85-88: a rejection of main() is logged and ends the process with 1.
Fatal(what) ==
    /\ errors' = Append(errors, what)
    /\ gpc' = "exit"
    /\ exitCode' = 1

\* Lines 36-40: the paginated listing answers.
ListOk ==
    /\ gpc = "listing"
    /\ responses' = Append(responses, [api |-> "list", repo |-> owner, status |-> 200])
    /\ \E l \in RepoLists : repos' = l
    /\ gpc' = "loop"
    /\ idx' = 1
    /\ projects' = <<>>
    /\ UNCHANGED <<owner, token, pageUrl, requests, warnings, errors, infos, file, exitCode>>
    /\ UNCHANGED rvars

\* Lines 36-39: the listing fails; nothing catches it inside main.
ListFail ==
    /\ gpc = "listing"
    /\ responses' = Append(responses, [api |-> "list", repo |-> owner, status |-> 500])
    /\ Fatal("list")
    /\ UNCHANGED <<owner, token, repos, idx, pageUrl, projects, requests, warnings, infos, file>>
    /\ UNCHANGED rvars

\* The test of line 43 without its second half.
SkippedForkOnly(repo) == repo.fork

\* Line 43.
Skipped(repo) == repo.fork \/ repo.archived

\* Lines 41-43: a forked or archived repository is passed over.
SkipRepo ==
    /\ gpc = "loop"
    /\ idx <= Len(repos)
    /\ Skipped(repos[idx])
    /\ idx' = idx + 1
    /\ UNCHANGED <<gpc, owner, token, repos, pageUrl, projects, requests, responses, warnings,
                   errors, infos, file, exitCode>>
    /\ UNCHANGED rvars

\* Lines 41-50: the hosted-page request for the next repository is issued.
PagesRequest ==
    /\ gpc = "loop"
    /\ idx <= Len(repos)
    /\ ~Skipped(repos[idx])
    /\ requests' = Append(requests, [api |-> "pages", repo |-> repos[idx].name])
    /\ gpc' = "pages"
    /\ UNCHANGED <<responses, owner, token, repos, idx, pageUrl, projects, warnings, errors,
                   infos, file, exitCode>>
    /\ UNCHANGED rvars

\* Lines 52-57 without the test of the status: every failure is logged.
PagesWarningsAll(status, name) == << [repo |-> name, what |-> "pages"] >>

\* The warning of lines 52-57 for an error of the given status.
PagesWarnings(status, name) ==
    IF status = 404 THEN <<>> ELSE << [repo |-> name, what |-> "pages"] >>

\* Statuses a failed hosted-page request carries.
ErrorStatuses == {404, 403, 500}

\* Lines 52-57: the hosted-page request fails; the repository is left out.
PagesFail ==
    /\ gpc = "pages"
    /\ \E status \in ErrorStatuses :
          /\ responses' = Append(responses, [api |-> "pages", repo |-> repos[idx].name,
                                             status |-> status])
          /\ warnings' = warnings \o PagesWarnings(status, repos[idx].name)
    /\ idx' = idx + 1
    /\ gpc' = "loop"
    /\ UNCHANGED <<owner, token, repos, pageUrl, projects, requests, errors, infos,
                   file, exitCode>>
    /\ UNCHANGED rvars

\* Lines 51, 58-62: the hosted-page request succeeds; the topics are asked for.
PagesOk ==
    /\ gpc = "pages"
    /\ responses' = Append(responses, [api |-> "pages", repo |-> repos[idx].name, status |-> 200])
    /\ pageUrl' = PageUrlOf(repos[idx].name)
    /\ requests' = Append(requests, [api |-> "topics", repo |-> repos[idx].name])
    /\ gpc' = "topics"
    /\ UNCHANGED <<owner, token, repos, idx, projects, warnings, errors, infos,
                   file, exitCode>>
    /\ UNCHANGED rvars

\* Lines 67-75.
Project(repo, url, topics) ==
    [name |-> repo.name,
     repo |-> repo.name,
     url |-> url,
     description |-> IF Truthy(repo.description) THEN repo.description ELSE "",
     topics |-> topics,
     date |-> repo.updated_at,
     screenshot |-> ""]

\* Lines 63, 67-76: the topics arrive; the record is pushed.
TopicsOk ==
    /\ gpc = "topics"
    /\ responses' = Append(responses, [api |-> "topics", repo |-> repos[idx].name, status |-> 200])
    /\ \E names \in TopicLists :
          projects' = Append(projects, Project(repos[idx], pageUrl, names))
    /\ idx' = idx + 1
    /\ gpc' = "loop"
    /\ UNCHANGED <<owner, token, repos, pageUrl, requests, warnings, errors, infos,
                   file, exitCode>>
    /\ UNCHANGED rvars

\* Line 60 without its initialiser: `topics` stays undefined.
NoTopicsFetchedUnset == NoTopics

\* Line 60: the value `topics` keeps when the topics request fails.
NoTopicsFetched == <<>>

\* Lines 64-76: the topics request fails; a warning, and the record is pushed.
TopicsFail ==
    /\ gpc = "topics"
    /\ responses' = Append(responses, [api |-> "topics", repo |-> repos[idx].name, status |-> 500])
    /\ warnings' = Append(warnings, [repo |-> repos[idx].name, what |-> "topics"])
    /\ projects' = Append(projects, Project(repos[idx], pageUrl, NoTopicsFetched))
    /\ idx' = idx + 1
    /\ gpc' = "loop"
    /\ UNCHANGED <<owner, token, repos, pageUrl, requests, errors, infos, file, exitCode>>
    /\ UNCHANGED rvars

\* The comparator of line 78 with its operands swapped.
GenCompareAscending(a, b) == DateDiff(a.date, b.date)

\* Line 78: (a, b) => new Date(b.date) - new Date(a.date).
GenCompare(a, b) == DateDiff(b.date, a.date)

\* Array.prototype.sort of `s` under the comparator table `c`.
Sorted(s, c) ==
    LET p == ArraySort(c, Len(s)) IN [i \in 1..Len(s) |-> s[p[i]]]

\* Line 78.
SortProjects(ps) ==
    Sorted(ps, [i \in 1..Len(ps) |-> [j \in 1..Len(ps) |->
                    SortCompare(GenCompare(ps[i], ps[j]))]])

\* Lines 77-81: the loop is over; the list is sorted and the write is issued.
SortAndWrite ==
    /\ gpc = "loop"
    /\ idx > Len(repos)
    /\ projects' = SortProjects(projects)
    /\ gpc' = "write"
    /\ UNCHANGED <<owner, token, repos, idx, pageUrl, requests, responses, warnings, errors,
                   infos, file, exitCode>>
    /\ UNCHANGED rvars

\* Lines 81-83: the file is replaced by the serialised list; the count is
\* logged and main returns.
WriteOk ==
    /\ gpc = "write"
    /\ file' = [writes |-> file.writes + 1, content |-> projects]
    /\ infos' = Append(infos, Len(projects))
    /\ gpc' = "done"
    /\ exitCode' = 0
    /\ UNCHANGED <<owner, token, repos, idx, pageUrl, projects, requests, responses, warnings, errors>>
    /\ UNCHANGED rvars

\* Line 81: the write fails; nothing catches it inside main.
WriteFail ==
    /\ gpc = "write"
    /\ Fatal("write")
    /\ UNCHANGED <<owner, token, repos, idx, pageUrl, projects, requests, responses, warnings,
                   infos, file>>
    /\ UNCHANGED rvars

GenNext ==
    \/ CheckEnv
    \/ ListOk
    \/ ListFail
    \/ SkipRepo
    \/ PagesRequest
    \/ PagesFail
    \/ PagesOk
    \/ TopicsOk
    \/ TopicsFail
    \/ SortAndWrite
    \/ WriteOk
    \/ WriteFail

\* ======================================================================
\*                           CATALOG RENDERER
\* ======================================================================

\* String.prototype.toLowerCase, over the letters the inputs use.
LowerChar(ch) ==
    CASE ch = "A" -> "a"
      [] ch = "B" -> "b"
      [] OTHER -> ch

ToLowerCase(s) == [i \in 1..Len(s) |-> LowerChar(s[i])]

\* String.prototype.trim: white space is dropped at both ends.
IsSpace(ch) == ch = " "

RECURSIVE TrimStart(_)
TrimStart(s) ==
    IF s # <<>> /\ IsSpace(Head(s)) THEN TrimStart(Tail(s)) ELSE s

RECURSIVE TrimEnd(_)
TrimEnd(s) ==
    IF s # <<>> /\ IsSpace(s[Len(s)]) THEN TrimEnd(SubSeq(s, 1, Len(s) - 1)) ELSE s

Trim(s) == TrimEnd(TrimStart(s))

\* String.prototype.includes.
Includes(s, q) ==
    \E k \in 0..(Len(s) - Len(q)) : SubSeq(s, k + 1, k + Len(q)) = q

\* Truthiness of a text field of a record.
TruthyText(t) == t # NoText /\ t # <<>>

\* Array.isArray(p.topics).
IsArray(t) == t # NoTopics

\* A record of the manifest as the page receives it; any field may be
\* missing.
Record(name, description, topics, date, url, screenshot) ==
    [name |-> name, description |-> description, topics |-> topics,
     date |-> date, url |-> url, screenshot |-> screenshot]

Records ==
    { Record(<<"A">>, <<>>, <<"x">>, "2023-01-01T00:00:00Z", "https://a/", Undefined),
      Record(<<"B">>, <<"a", " ", "b">>, <<"y">>, "2023-06-01T00:00:00Z", "https://b/", ""),
      Record(NoText, NoText, NoTopics, Undefined, Undefined, Undefined),
      Record(<<"A", "b">>, <<"B">>, <<"x", "y">>, "not-a-date", "https://ab/", ""),
      Record(<<"b">>, <<>>, <<>>, "2023-06-01T00:00:00Z", "", ""),
      Record(<<"a">>, NoText, <<"all">>, "2024-02-29T23:59:59Z", "https://c/", "shot.png") }

Manifests == UNION { [1..n -> Records] : n \in 0..MaxRecs }

\* What a visitor types into the search box.
SearchTexts ==
    { <<>>, <<" ">>, <<"a">>, <<"B">>, <<" ", "a">>, <<"a", "b", " ">>,
      <<"A", " ", "B">> }

\* The value of the selector's first choice, which stands for every tag
\* (line 154 reads it as `!selectedTag`).
AllTag == ""

\* The two values of the sort control (line 160).
SortValues == {"asc", "desc"}

\* Every topic the inputs use, in the order of the default Array.prototype.sort.
TagsInOrder == <<"all", "x", "y">>

\* Lines 127-135: the distinct topics of all records, sorted.
TopicOptions(ps) ==
    LET HasTopic(t) ==
            \E i \in 1..Len(ps) :
                /\ IsArray(ps[i].topics)
                /\ \E k \in 1..Len(ps[i].topics) : ps[i].topics[k] = t
    IN  SelectSeq(TagsInOrder, HasTopic)

\* Lines 98-105.  getFullYear, getMonth and getDate are taken in UTC; the
\* calendar date of a day count is computed the usual way (eras of 400 years).
Pad2(n) == IF n < 10 THEN "0" \o ToString(n) ELSE ToString(n)

formatDate(isoString) ==
    LET date == DateParse(isoString)
    IN  IF date.nan THEN ""
        ELSE LET z == (date.val \div 86400) + 719468
                 era == z \div 146097
                 doe == z - era * 146097
                 yoe == (doe - (doe \div 1460) + (doe \div 36524) - (doe \div 146096)) \div 365
                 doy == doe - (365 * yoe + (yoe \div 4) - (yoe \div 100))
                 mp == (5 * doy + 2) \div 153
                 d == doy - ((153 * mp + 2) \div 5) + 1
                 m == IF mp < 10 THEN mp + 3 ELSE mp - 9
                 y == yoe + era * 400 + (IF m <= 2 THEN 1 ELSE 0)
             IN  ToString(y) \o "-" \o Pad2(m) \o "-" \o Pad2(d)

\* Line 194: the fixed prefix of the date label ("updated on" and a space;
\* the source has it in Chinese, here it is spelled in ASCII).
DatePrefix == "updated-on "

\* Line 194: the text of the date label.
DateLabel(p) ==
    IF Truthy(p.date) THEN DatePrefix \o formatDate(p.date) ELSE ""

\* Lines 151-155: the filter predicate, `query` already trimmed and lowered.
MatchesSearch(p, query) ==
    LET inName == TruthyText(p.name) /\ Includes(ToLowerCase(p.name), query)
        inDesc == TruthyText(p.description) /\ Includes(ToLowerCase(p.description), query)
    IN  query = <<>> \/ inName \/ inDesc

MatchesTag(p, selectedTag) ==
    \/ selectedTag = AllTag
    \/ /\ IsArray(p.topics)
       /\ \E k \in 1..Len(p.topics) : p.topics[k] = selectedTag

\* Lines 157-165.
RenderCompare(sortVal, a, b) ==
    IF sortVal = "asc" THEN DateDiff(a.date, b.date) ELSE DateDiff(b.date, a.date)

\* Lines 169-195: the card of record `p`, the k-th of the manifest.
Card(p, k) ==
    [of |-> k,
     href |-> IF Truthy(p.url) THEN p.url ELSE "#",
     img |-> IF Truthy(p.screenshot) THEN p.screenshot ELSE "placeholder_light_gray_block.png",
     title |-> IF TruthyText(p.name) THEN p.name ELSE <<"unnamed-project">>,
     desc |-> IF TruthyText(p.description) THEN p.description ELSE <<>>,
     tags |-> IF IsArray(p.topics) THEN p.topics ELSE <<>>,
     date |-> DateLabel(p)]

\* Line 146 without toLowerCase.
QueryAsTyped(text) == Trim(text)

\* Line 146.
Query(text) == ToLowerCase(Trim(text))

\* Lines 144-197: what render() leaves behind: the cards of the grid, and
\* the array `projects` (filter copies it, so the sort works on the copy).
Render(ps, text, selectedTag, sortVal) ==
    LET query == Query(text)
        Keep(k) == MatchesSearch(ps[k], query) /\ MatchesTag(ps[k], selectedTag)
        filtered == SelectSeq([k \in 1..Len(ps) |-> k], Keep)
        n == Len(filtered)
        c == [i \in 1..n |-> [j \in 1..n |->
                 SortCompare(RenderCompare(sortVal, ps[filtered[i]], ps[filtered[j]]))]]
        sorted == Sorted(filtered, c)
    IN  [grid |-> [i \in 1..n |-> Card(ps[sorted[i]], sorted[i])],
         projects |-> ps]

RenderInit ==
    /\ rpc = "page"
    /\ served = <<>>
    /\ data = <<>>
    /\ searchValue = <<>>
    /\ tagValue = AllTag
    /\ sortValue \in SortValues
    /\ tagOptions = <<>>
    /\ grid = <<>>
    /\ listeners = FALSE
    /\ fetches = 0
    /\ diagnostics = <<>>

\* Lines 208-210, 110: the document is ready; the manifest is requested.
DOMContentLoaded ==
    /\ rpc = "page"
    /\ rpc' = "fetching"
    /\ fetches' = fetches + 1
    /\ UNCHANGED <<served, data, searchValue, tagValue, sortValue, tagOptions, grid,
                   listeners, diagnostics>>
    /\ UNCHANGED gvars

\* The ways the request of lines 110-112 fails.
FetchFailures == {"network", "http", "json"}

\* A catch block that logs and asks again.
FetchFailRetry ==
    /\ rpc = "fetching"
    /\ fetches < 3
    /\ \E why \in FetchFailures : diagnostics' = Append(diagnostics, why)
    /\ fetches' = fetches + 1
    /\ UNCHANGED <<rpc, served, data, searchValue, tagValue, sortValue, tagOptions, grid,
                   listeners>>
    /\ UNCHANGED gvars

\* Lines 110-116: the request fails, the status is not 2xx, or the body is
\* not JSON; the error is logged.
FetchFail ==
    /\ rpc = "fetching"
    /\ \E why \in FetchFailures : diagnostics' = Append(diagnostics, why)
    /\ rpc' = "failed"
    /\ UNCHANGED <<served, data, searchValue, tagValue, sortValue, tagOptions, grid,
                   listeners, fetches>>
    /\ UNCHANGED gvars

\* Lines 112-113, 120-205: the manifest arrives; initApp adds the tag
\* options, attaches the listeners and renders.
FetchOk ==
    /\ rpc = "fetching"
    /\ \E m \in Manifests :
          /\ served' = m
          /\ data' = Render(m, searchValue, tagValue, sortValue).projects
          /\ tagOptions' = tagOptions \o TopicOptions(m)
          /\ grid' = Render(m, searchValue, tagValue, sortValue).grid
    /\ listeners' = TRUE
    /\ rpc' = "ready"
    /\ UNCHANGED <<searchValue, tagValue, sortValue, fetches, diagnostics>>
    /\ UNCHANGED gvars

\* What a control event leaves in the grid: render() runs if the listener
\* is attached (lines 200-202).
AfterEvent(text, selectedTag, sortVal) ==
    IF listeners
    THEN Render(data, text, selectedTag, sortVal)
    ELSE [grid |-> grid, projects |-> data]

\* Line 200: the visitor edits the search text.
InputSearch ==
    /\ \E text \in SearchTexts :
          /\ searchValue' = text
          /\ grid' = AfterEvent(text, tagValue, sortValue).grid
          /\ data' = AfterEvent(text, tagValue, sortValue).projects
    /\ UNCHANGED <<rpc, served, tagValue, sortValue, tagOptions, listeners, fetches,
                   diagnostics>>
    /\ UNCHANGED gvars

\* Line 201: the visitor picks one of the selector's choices.
ChangeTag ==
    /\ \E k \in 0..Len(tagOptions) :
          LET t == IF k = 0 THEN AllTag ELSE tagOptions[k]
          IN  /\ tagValue' = t
              /\ grid' = AfterEvent(searchValue, t, sortValue).grid
              /\ data' = AfterEvent(searchValue, t, sortValue).projects
    /\ UNCHANGED <<rpc, served, searchValue, sortValue, tagOptions, listeners, fetches,
                   diagnostics>>
    /\ UNCHANGED gvars

\* Line 202: the visitor picks a sort order.
ChangeSort ==
    /\ \E v \in SortValues :
          /\ sortValue' = v
          /\ grid' = AfterEvent(searchValue, tagValue, v).grid
          /\ data' = AfterEvent(searchValue, tagValue, v).projects
    /\ UNCHANGED <<rpc, served, searchValue, tagValue, tagOptions, listeners, fetches,
                   diagnostics>>
    /\ UNCHANGED gvars

RenderNext ==
    \/ DOMContentLoaded
    \/ FetchFail
    \/ FetchOk
    \/ InputSearch
    \/ ChangeTag
    \/ ChangeSort

\* ------------------------------------------------------- specifications
\* The generator alone (the page is not open).
Init == GenInit /\ RenderInit /\ sortValue = "desc"
Next == GenNext
Spec == Init /\ [][Next]_vars

\* The page alone (the generator does not run).
PageInit == RenderInit /\ GenInit /\ owner = Undefined /\ token = Undefined
PageNext == RenderNext
PageSpec == PageInit /\ [][PageNext]_vars

\* ======================================================================
\*                    PROPERTIES OF THE GENERATOR
\* ======================================================================

\* How many elements of `s` satisfy Test.
Count(s, Test(_)) == Cardinality({ k \in 1..Len(s) : Test(s[k]) })

\* How many records of `ps` are those of the repository `name`.
RecordsOf(ps, name) == LET Is(p) == p.repo = name IN Count(ps, Is)

\* How many warnings were logged about the repository `name`.
WarningsOf(name) == LET Is(w) == w.repo = name IN Count(warnings, Is)

\* The answers received for `name` from `api` that satisfy Test.
Answered(api, name, Test(_)) ==
    \E k \in 1..Len(responses) :
        /\ responses[k].api = api
        /\ responses[k].repo = name
        /\ Test(responses[k].status)

IsOk(status) == status = 200
IsError(status) == status # 200
AnyStatus(status) == TRUE

\* C1: a repository of the listing that is flagged forked or archived has no
\* record, neither in the list being built nor in the manifest on disk, and
\* no hosted-page request and no topics request is ever issued for it.
C1_ForkedArchivedExcluded ==
    \A i \in 1..Len(repos) :
        (repos[i].fork \/ repos[i].archived) =>
            /\ RecordsOf(projects, repos[i].name) = 0
            /\ RecordsOf(file.content, repos[i].name) = 0
            /\ \A k \in 1..Len(requests) :
                  requests[k].api \in {"pages", "topics"} => requests[k].repo # repos[i].name

\* C1 witness: a finished run whose listing had a fork and an archived
\* repository and whose manifest is not empty.
C1_Witness ==
    /\ gpc = "done"
    /\ \E i, j \in 1..Len(repos) : repos[i].fork /\ repos[j].archived
    /\ Len(file.content) > 0

\* C2: a repository whose hosted-page request failed has no record; a 404
\* logs nothing about it, any other failure logs exactly one warning; the
\* failure never ends the run (the only fatal error left is the write's),
\* and a run that is done has asked for every unflagged repository of the
\* listing, has written the manifest once and has exit status 0.
C2_PagesFailureIsolated ==
    /\ \A k \in 1..Len(responses) :
          (responses[k].api = "pages" /\ responses[k].status # 200) =>
              /\ RecordsOf(projects, responses[k].repo) = 0
              /\ RecordsOf(file.content, responses[k].repo) = 0
              /\ WarningsOf(responses[k].repo) = (IF responses[k].status = 404 THEN 0 ELSE 1)
              /\ gpc \in {"loop", "pages", "topics", "write", "done", "exit"}
              /\ gpc = "exit" => errors = <<"write">>
    /\ gpc = "done" =>
          /\ exitCode = 0
          /\ file.writes = 1
          /\ infos = << Len(file.content) >>
          /\ \A i \in 1..Len(repos) :
                ~(repos[i].fork \/ repos[i].archived) => Answered("pages", repos[i].name, AnyStatus)

\* C2 witness: a finished run in which one hosted-page request met a 404,
\* another met a different error, and a repository listed after a failed one
\* got its record.
C2_Witness ==
    /\ gpc = "done"
    /\ \E k, l \in 1..Len(responses) :
          /\ responses[k].api = "pages" /\ responses[k].status = 404
          /\ responses[l].api = "pages" /\ responses[l].status = 500
    /\ \E k, l \in 1..Len(responses) :
          /\ k < l
          /\ responses[k].api = "pages" /\ responses[k].status # 200
          /\ responses[l].api = "pages" /\ responses[l].status = 200
          /\ RecordsOf(file.content, responses[l].repo) = 1

\* C3: a repository whose hosted-page request succeeded has exactly one
\* record once its topics request is answered, whatever the answer; if the
\* answer is a failure the record's topics is the empty list and one warning
\* is logged; topics is an array in every record built or written.
C3_TopicsFailureKeepsRecord ==
    /\ \A k \in 1..Len(responses) :
          responses[k].api = "topics" =>
              /\ Answered("pages", responses[k].repo, IsOk)
              /\ RecordsOf(projects, responses[k].repo) = 1
              /\ file.writes > 0 => RecordsOf(file.content, responses[k].repo) = 1
              /\ responses[k].status # 200 =>
                    /\ \A i \in 1..Len(projects) :
                          projects[i].repo = responses[k].repo => projects[i].topics = <<>>
                    /\ WarningsOf(responses[k].repo) = 1
    /\ \A i \in 1..Len(projects) :
          "topics" \in DOMAIN projects[i] /\ projects[i].topics # NoTopics
    /\ \A i \in 1..Len(file.content) :
          "topics" \in DOMAIN file.content[i] /\ file.content[i].topics # NoTopics
    /\ gpc = "done" =>
          \A i \in 1..Len(repos) :
              Answered("pages", repos[i].name, IsOk) =>
                  RecordsOf(file.content, repos[i].name) = 1

\* C3 witness: a finished run in which one topics request failed and another
\* succeeded, both repositories in the manifest.
C3_Witness ==
    /\ gpc = "done"
    /\ \E k, l \in 1..Len(responses) :
          /\ responses[k].api = "topics" /\ responses[k].status # 200
          /\ responses[l].api = "topics" /\ responses[l].status = 200
          /\ RecordsOf(file.content, responses[k].repo) = 1
          /\ RecordsOf(file.content, responses[l].repo) = 1

\* The time value of a record's date.
TimeOf(p) == DateParse(p.date).val

\* C4: the array written to the manifest is in descending order of the
\* last-updated timestamp: no record is older than the one after it.
C4_ManifestSortedDescending ==
    /\ file.writes > 0 =>
          \A i \in 1..(Len(file.content) - 1) :
              TimeOf(file.content[i]) >= TimeOf(file.content[i + 1])
    /\ gpc \in {"write", "done"} =>
          /\ \A i \in 1..(Len(projects) - 1) : TimeOf(projects[i]) >= TimeOf(projects[i + 1])
          /\ \A i \in 1..Len(repos) :
                RecordsOf(projects, repos[i].name) =
                    (IF Answered("topics", repos[i].name, AnyStatus) THEN 1 ELSE 0)

\* C4 witness: a written manifest of three records whose repositories were
\* listed oldest first.
C4_Witness ==
    /\ gpc = "done"
    /\ Len(file.content) = 3
    /\ \E i, j \in 1..Len(repos) :
          /\ i < j
          /\ RecordsOf(file.content, repos[i].name) = 1
          /\ RecordsOf(file.content, repos[j].name) = 1
          /\ DateParse(repos[i].updated_at).val < DateParse(repos[j].updated_at).val

\* An environment variable that is not set, or set to nothing.
Missing(v) == v = Undefined \/ v = ""

\* C5: with the account or the token missing, the run goes from the start
\* straight to exit status 1 with one error logged, issues no request and
\* leaves the manifest file as it was.
C5_MissingCredentialsFatal ==
    (Missing(owner) \/ Missing(token)) =>
        /\ requests = <<>>
        /\ responses = <<>>
        /\ file = StaleFile
        /\ gpc \in {"start", "exit"}
        /\ gpc = "start" => exitCode = -1 /\ errors = <<>>
        /\ gpc = "exit" =>
              /\ exitCode = 1
              /\ errors = << IF Missing(owner) THEN "GITHUB_USER" ELSE "GITHUB_TOKEN" >>

\* C5 witness: the run has ended for want of the token alone.
C5_Witness ==
    /\ ~Missing(owner)
    /\ Missing(token)
    /\ gpc = "exit"

\* ======================================================================
\*                     PROPERTIES OF THE RENDERER
\* ======================================================================

\* Two characters that are the same letter, whatever their case.
SameLetter(x, y) == x = y \/ {x, y} = {"a", "A"} \/ {x, y} = {"b", "B"}

\* `q` occurs in the text field `t`, case aside (never in a missing field).
OccursIn(q, t) ==
    /\ t # NoText
    /\ \E k \in 0..(Len(t) - Len(q)) : \A i \in 1..Len(q) : SameLetter(q[i], t[k + i])

\* The text between the first and the last character that is not a space.
Trimmed(text) ==
    LET inner == { k \in 1..Len(text) : text[k] # " " }
    IN  IF inner = {} THEN <<>>
        ELSE SubSeq(text, CHOOSE k \in inner : \A l \in inner : k <= l,
                          CHOOSE k \in inner : \A l \in inner : k >= l)

\* The two conditions for a record to be shown under search text `text`.
SearchCondition(p, text) ==
    text = <<>> \/ OccursIn(text, p.name) \/ OccursIn(text, p.description)

TagCondition(p) ==
    \/ tagValue = AllTag
    \/ p.topics # NoTopics /\ \E k \in 1..Len(p.topics) : p.topics[k] = tagValue

\* The number of cards in the grid for the k-th record of the manifest.
CardsOf(k) == Cardinality({ i \in 1..Len(grid) : grid[i].of = k })

\* The grid holds one card for each record that is to be shown and no other;
\* the in-memory manifest is the one that was served.
GridShows(Shown(_)) ==
    /\ data = served
    /\ \A i \in 1..Len(grid) : grid[i].of \in 1..Len(data)
    /\ \A k \in 1..Len(data) : CardsOf(k) = (IF Shown(data[k]) THEN 1 ELSE 0)

\* C6 as stated: once the view is initialised, after any sequence of control
\* changes, the grid holds one card for each record for which (1) the search
\* text is empty or occurs, case aside, in the name or in the description,
\* and (2) the selected tag is the "all" choice or is among the record's
\* topics; the manifest in memory is never changed.
C6_GridMatchesRawSearch ==
    rpc = "ready" =>
        LET Shown(p) == SearchCondition(p, searchValue) /\ TagCondition(p)
        IN  GridShows(Shown)

\* C6 as amended: the same, with condition (1) read on the search text
\* without its leading and trailing white space.
C6_GridMatchesTrimmedSearch ==
    /\ rpc = "ready" =>
          LET Shown(p) == SearchCondition(p, Trimmed(searchValue)) /\ TagCondition(p)
          IN  GridShows(Shown)
    /\ rpc # "ready" => grid = <<>>

\* C6 witness: the view is initialised, the search text carries white space
\* around a letter, a tag is selected, and the grid shows some but not all
\* records.
C6_Witness ==
    /\ rpc = "ready"
    /\ searchValue # <<>>
    /\ Trimmed(searchValue) # searchValue
    /\ Trimmed(searchValue) # <<>>
    /\ tagValue # AllTag
    /\ Len(grid) >= 1
    /\ Len(grid) < Len(data)

\* Whether the date of the record behind a card parses, and its time value.
Parses(card) == ~DateParse(data[card.of].date).nan
TimeValue(card) == DateParse(data[card.of].date).val

\* C7: the cards are in timestamp order, ascending or descending as the sort
\* control says, and cards of equal timestamps are in manifest order.
C7_CardsInTimestampOrder ==
    rpc = "ready" =>
        \A i, j \in 1..Len(grid) :
            (i < j /\ Parses(grid[i]) /\ Parses(grid[j])) =>
                /\ sortValue = "asc" => TimeValue(grid[i]) <= TimeValue(grid[j])
                /\ sortValue = "desc" => TimeValue(grid[i]) >= TimeValue(grid[j])
                /\ TimeValue(grid[i]) = TimeValue(grid[j]) => grid[i].of < grid[j].of

\* C8: the date label of a card is the empty string if the record's date is
\* absent or does not parse, and is not empty if it parses.
C8_DateLabelEmptyUnlessParseable ==
    \A i \in 1..Len(grid) :
        IF Parses(grid[i]) THEN grid[i].date # "" ELSE grid[i].date = ""

\* C9: every card whose date does not parse comes after every card whose
\* date parses, and the latter are in the order the sort control asks for.
C9_UnparseableDatesLast ==
    rpc = "ready" =>
        \A i, j \in 1..Len(grid) :
            i < j =>
                /\ ~(~Parses(grid[i]) /\ Parses(grid[j]))
                /\ (Parses(grid[i]) /\ Parses(grid[j])) =>
                      IF sortValue = "asc"
                      THEN TimeValue(grid[i]) <= TimeValue(grid[j])
                      ELSE TimeValue(grid[i]) >= TimeValue(grid[j])

\* C10: the manifest is requested at most once; after a failed request one
\* diagnostic is logged, and there is no tag option, no card, no listener
\* and no manifest in memory, whatever the visitor does to the controls;
\* options, cards and listeners exist only after a successful request.
C10_FetchFailureIsTerminal ==
    /\ fetches <= 1
    /\ rpc = "page" <=> fetches = 0
    /\ rpc = "failed" =>
          /\ Len(diagnostics) = 1
          /\ tagOptions = <<>>
          /\ grid = <<>>
          /\ data = <<>>
          /\ ~listeners
    /\ (listeners \/ tagOptions # <<>> \/ grid # <<>>) => rpc = "ready"
    /\ rpc = "ready" => listeners /\ diagnostics = <<>>

\* C10 witness: the request has failed and the visitor has since changed the
\* search text and the sort order.
C10_Witness ==
    /\ rpc = "failed"
    /\ searchValue = <<"a">>
    /\ sortValue = "asc"
    /\ diagnostics = <<"http">>

====
